---- MODULE Spec2Model ----
(***************************************************************************)
(* Model of lindbladmpo/examples/qubit_driving/topologies.py: the three    *)
(* module-level dictionaries coupling_maps, qubit_coordinates and          *)
(* h_z_patterns, the module-level loops and literal assignments that fill  *)
(* them when the module is loaded, and plot_topology, which reads them.    *)
(*                                                                         *)
(* A Python list is a sequence, a two-element list [a, b] (an edge, a      *)
(* coordinate) the tuple <<a, b>>, a dict a function whose DOMAIN is its   *)
(* key set. Dictionary keys are the strings the code formats.              *)
(***************************************************************************)
EXTENDS Integers, Sequences, FiniteSets, TLC

VARIABLES
    coupling_maps,      \* dict: key -> list of bonds
    qubit_coordinates,  \* dict: key -> list of coordinates
    h_z_patterns,       \* dict: key -> list of relative h_z strengths
    pc,                 \* the module-level statement group about to execute
    n_qubits,           \* the module-level loop variable
    plot_call,          \* the arguments of the plot_topology call just made
    plot_outcome,       \* how that call ended: "returned", or the exception it raised
    plot_raised,        \* the exception raised inside its try block
    plot_stdout,        \* what it printed
    plot_handed,        \* the keyword arguments it called plot_coupling_map with
    plot_saved,         \* the file name it saved the figure to
    ring_call,          \* the arguments of the last _create_ring_A call
    ring_result         \* the tuple that call returned

vars == <<coupling_maps, qubit_coordinates, h_z_patterns, pc, n_qubits,
          plot_call, plot_outcome, plot_raised, plot_stdout, plot_handed, plot_saved,
          ring_call, ring_result>>

ring_vars == <<ring_call, ring_result>>

tables == <<coupling_maps, qubit_coordinates, h_z_patterns>>

plot_vars == <<plot_call, plot_outcome, plot_raised, plot_stdout, plot_handed, plot_saved>>

-----------------------------------------------------------------------------
(* Loop ranges of the module-level construction: range(start, stop, step). *)

ChainMStart == 3
ChainMStop == 63
ChainEStart == 2
ChainEStop == 63
RingAStart == 4
RingAStop == 64
RingBStart == 4
RingBStop == 64
PlaquetteAStart == 6
PlaquetteAStop == 64

(* d[key] = value on a dict. *)
DictSet(d, key, value) ==
    [k \in DOMAIN d \cup {key} |-> IF k = key THEN value ELSE d[k]]

(* Variant of DictGet: d.get(key, []), a missing key yields an empty list. *)
DictGet_Default(d, key) ==
    [raised |-> "", value |-> IF key \in DOMAIN d THEN d[key] ELSE <<>>]

(* d[key] on a dict: the stored value, or KeyError raised to the caller. *)
DictGet(d, key) ==
    IF key \in DOMAIN d
    THEN [raised |-> "", value |-> d[key]]
    ELSE [raised |-> "KeyError"]

(* f"{n_qubits}.chain.M" and its like: the decimal digits of n, then the suffix. *)
SKey(n, suffix) == ToString(n) \o suffix

-----------------------------------------------------------------------------
(* _create_ring_A *)

(* The second loop of _create_ring_A, for i in range(1, n - 2, 2), from the
   iteration at i on; acc carries h_z_pat, q_coordinates and h_z_. *)
RECURSIVE RingAFill(_, _, _)
RingAFill(i, n, acc) ==
    IF i < n - 2
    THEN RingAFill(i + 2, n,
            [h_z_pat |-> acc.h_z_pat \o <<acc.h_z_, acc.h_z_>>,
             q_coordinates |-> acc.q_coordinates
                                \o << <<2 + (i \div 2), 0>>, <<2 + (i \div 2), 2>> >>,
             h_z_ |-> IF acc.h_z_ = 1 THEN 0 ELSE 1])
    ELSE acc

(* Variant of RingACMap: the loop appends [i, i + 1] instead of [i, i + 2]. *)
RingACMap_NextNeighbour(n, i_offset) ==
    << <<i_offset, i_offset + 1>>, <<i_offset, i_offset + 2>> >>
    \o [k \in 1..(n - 3) |-> <<i_offset + k, i_offset + k + 1>>]
    \o << <<i_offset + n - 2, i_offset + n - 1>> >>

(* Variant of RingACMap: the closing bond is one index too far. *)
RingACMap_PastEnd(n, i_offset) ==
    << <<i_offset, i_offset + 1>>, <<i_offset, i_offset + 2>> >>
    \o [k \in 1..(n - 3) |-> <<i_offset + k, i_offset + k + 2>>]
    \o << <<i_offset + n - 1, i_offset + n>> >>

(* The bonds of _create_ring_A. *)
RingACMap(n, i_offset) ==
    << <<i_offset, i_offset + 1>>, <<i_offset, i_offset + 2>> >>
    \o [k \in 1..(n - 3) |-> <<i_offset + k, i_offset + k + 2>>]
    \o << <<i_offset + n - 2, i_offset + n - 1>> >>

(* Variant of create_ring_A: h_z_ starts at 0 instead of 1. *)
create_ring_A_StartsAtZero(n, i_offset) ==
    LET filled == RingAFill(1, n, [h_z_pat |-> <<0>>,
                                   q_coordinates |-> << <<1, 1>> >>,
                                   h_z_ |-> 0])
    IN  [c_map |-> RingACMap(n, i_offset),
         q_coordinates |-> filled.q_coordinates \o << <<1 + (n \div 2), 1>> >>,
         h_z_pat |-> Append(filled.h_z_pat, filled.h_z_)]

(* Variant of create_ring_A: the pattern ends with a fixed 0 instead of h_z_. *)
create_ring_A_FixedEnd(n, i_offset) ==
    LET filled == RingAFill(1, n, [h_z_pat |-> <<0>>,
                                   q_coordinates |-> << <<1, 1>> >>,
                                   h_z_ |-> 1])
    IN  [c_map |-> RingACMap(n, i_offset),
         q_coordinates |-> filled.q_coordinates \o << <<1 + (n \div 2), 1>> >>,
         h_z_pat |-> Append(filled.h_z_pat, 0)]

create_ring_A(n, i_offset) ==
    LET filled == RingAFill(1, n, [h_z_pat |-> <<0>>,
                                   q_coordinates |-> << <<1, 1>> >>,
                                   h_z_ |-> 1])
    IN  [c_map |-> RingACMap(n, i_offset),
         q_coordinates |-> filled.q_coordinates \o << <<1 + (n \div 2), 1>> >>,
         h_z_pat |-> Append(filled.h_z_pat, filled.h_z_)]

-----------------------------------------------------------------------------
(* The bodies of the module-level loops: the triple each iteration stores. *)

(* for i in range(n - 1): c_map.append([i, i + 1]) *)
PathCMap(n) == [k \in 1..(n - 1) |-> <<k - 1, k>>]

(* q_coordinates.append([0, i]) for i in range(n) *)
LineCoordinates(n) == [k \in 1..n |-> <<0, k - 1>>]

(* Variant of driven_qubit_is_odd: the test on (n_qubits - 1) % 4 inverted. *)
driven_qubit_is_odd_Inverted(n) == IF (n - 1) % 4 = 0 THEN 1 ELSE 0

(* Line 66: which parity of index gets h_z amplitude 0. *)
driven_qubit_is_odd(n) == IF (n - 1) % 4 # 0 THEN 1 ELSE 0

ChainMTopology(n) ==
    [c_map |-> PathCMap(n),
     q_coordinates |-> LineCoordinates(n),
     h_z_pat |-> [k \in 1..n |->
                    IF (k - 1) % 2 = driven_qubit_is_odd(n) THEN 0 ELSE 1]]

ChainETopology(n) ==
    [c_map |-> PathCMap(n),
     q_coordinates |-> LineCoordinates(n),
     h_z_pat |-> [k \in 1..n |-> IF (k - 1) % 2 = 0 THEN 0 ELSE 1]]

RingATopology(n) == create_ring_A(n, 0)

(* Variant of RingBTopology: the top row stops one qubit early,
   range(N_by_2, 2, -1). *)
RingBTopology_ShortTopRow(n) ==
    LET N_by_2 == n \div 2
    IN  [c_map |-> Append(PathCMap(n), <<n - 1, 0>>),
         q_coordinates |->
               << <<1, 1>> >>
            \o [k \in 1..(N_by_2 - 1) |-> <<k + 1, 0>>]
            \o << <<N_by_2 + 1, 1>> >>
            \o [k \in 1..(N_by_2 - 2) |-> <<N_by_2 - k + 1, 2>>],
         h_z_pat |-> [k \in 1..n |-> IF (k - 1) % 2 = 0 THEN 0 ELSE 1]]

RingBTopology(n) ==
    LET N_by_2 == n \div 2
    IN  [c_map |-> Append(PathCMap(n), <<n - 1, 0>>),
         q_coordinates |->
               << <<1, 1>> >>
            \o [k \in 1..(N_by_2 - 1) |-> <<k + 1, 0>>]
            \o << <<N_by_2 + 1, 1>> >>
            \o [k \in 1..(N_by_2 - 1) |-> <<N_by_2 - k + 1, 2>>],
         h_z_pat |-> [k \in 1..n |-> IF (k - 1) % 2 = 0 THEN 0 ELSE 1]]

(* Variant of PlaquetteATopology: the bond of the last boundary qubit,
   [n_qubits - 2, n_qubits - 1], is not appended. *)
PlaquetteATopology_NoEndBond(n) ==
    LET ring == create_ring_A(n - 2, 1)
        q_coord_end == ring.q_coordinates[Len(ring.q_coordinates)]
    IN  [c_map |-> << <<0, 1>> >> \o ring.c_map,
         q_coordinates |-> (<< <<0, 1>> >> \o ring.q_coordinates)
                            \o << <<q_coord_end[1] + 1, q_coord_end[2]>> >>,
         h_z_pat |-> (<<0>> \o [k \in 1..Len(ring.h_z_pat) |->
                                   IF ring.h_z_pat[k] = 0 THEN 1 ELSE 0])
                     \o <<0>>]

PlaquetteATopology(n) ==
    LET ring == create_ring_A(n - 2, 1)
        q_coord_end == ring.q_coordinates[Len(ring.q_coordinates)]
    IN  [c_map |-> (<< <<0, 1>> >> \o ring.c_map) \o << <<n - 2, n - 1>> >>,
         q_coordinates |-> (<< <<0, 1>> >> \o ring.q_coordinates)
                            \o << <<q_coord_end[1] + 1, q_coord_end[2]>> >>,
         h_z_pat |-> (<<0>> \o [k \in 1..Len(ring.h_z_pat) |->
                                   IF ring.h_z_pat[k] = 0 THEN 1 ELSE 0])
                     \o <<0>>]

-----------------------------------------------------------------------------
(* The literal tables. *)

PlaquetteB10 ==
    [c_map |->
        <<<<0, 1>>, <<1, 2>>, <<2, 3>>, <<3, 4>>, <<4, 5>>, <<5, 6>>, <<5, 7>>, <<7, 8>>, <<8, 9>>,
        <<9, 1>>>>,
     q_coordinates |->
        <<<<0, 1>>, <<1, 1>>, <<2, 0>>, <<3, 0>>, <<4, 0>>, <<5, 1>>, <<6, 1>>, <<4, 2>>, <<3, 2>>,
        <<2, 2>>>>,
     h_z_pat |-> <<0, 1, 0, 1, 0, 1, 0, 0, 1, 0>>]

PlaquetteB12 ==
    [c_map |->
        <<<<0, 1>>, <<1, 2>>, <<2, 3>>, <<3, 4>>, <<4, 5>>, <<5, 6>>, <<6, 7>>, <<6, 8>>, <<8, 9>>,
        <<9, 10>>, <<10, 11>>, <<11, 1>>>>,
     q_coordinates |->
        <<<<0, 1>>, <<1, 1>>, <<2, 0>>, <<3, 0>>, <<4, 0>>, <<5, 0>>, <<6, 1>>, <<7, 1>>, <<5, 2>>,
        <<4, 2>>, <<3, 2>>, <<2, 2>>>>,
     h_z_pat |-> <<0, 1, 0, 1, 0, 1, 1, 0, 1, 0, 1, 0>>]

Falcon27 ==
    [c_map |->
        <<<<0, 1>>, <<1, 2>>, <<1, 4>>, <<2, 3>>, <<3, 5>>, <<4, 7>>, <<5, 8>>, <<6, 7>>, <<7, 10>>,
        <<8, 9>>, <<8, 11>>, <<10, 12>>, <<11, 14>>, <<12, 13>>, <<12, 15>>, <<13, 14>>, <<14, 16>>,
        <<15, 18>>, <<16, 19>>, <<17, 18>>, <<18, 21>>, <<19, 20>>, <<19, 22>>, <<21, 23>>, <<22,
        25>>, <<23, 24>>, <<24, 25>>, <<25, 26>>>>,
     q_coordinates |->
        <<<<1, 0>>, <<1, 1>>, <<2, 1>>, <<3, 1>>, <<1, 2>>, <<3, 2>>, <<0, 3>>, <<1, 3>>, <<3, 3>>,
        <<4, 3>>, <<1, 4>>, <<3, 4>>, <<1, 5>>, <<2, 5>>, <<3, 5>>, <<1, 6>>, <<3, 6>>, <<0, 7>>,
        <<1, 7>>, <<3, 7>>, <<4, 7>>, <<1, 8>>, <<3, 8>>, <<1, 9>>, <<2, 9>>, <<3, 9>>, <<3, 10>>>>,
     h_z_pat |-> [k \in 1..27 |-> 0]]

Falcon7 ==
    [c_map |->
        <<<<0, 1>>, <<1, 2>>, <<1, 3>>, <<3, 5>>, <<4, 5>>, <<5, 6>>>>,
     q_coordinates |->
        <<<<1, 0>>, <<1, 1>>, <<1, 2>>, <<2, 1>>, <<3, 0>>, <<3, 1>>, <<3, 2>>>>,
     h_z_pat |-> [k \in 1..7 |-> 0]]

Eagle127 ==
    [c_map |->
        <<<<0, 1>>, <<0, 14>>, <<1, 0>>, <<1, 2>>, <<2, 1>>, <<2, 3>>, <<3, 2>>, <<3, 4>>, <<4, 3>>,
        <<4, 5>>, <<4, 15>>, <<5, 4>>, <<5, 6>>, <<6, 5>>, <<6, 7>>, <<7, 6>>, <<7, 8>>, <<8, 7>>,
        <<8, 16>>, <<9, 10>>, <<10, 9>>, <<10, 11>>, <<11, 10>>, <<11, 12>>, <<12, 11>>, <<12, 13>>,
        <<12, 17>>, <<13, 12>>, <<14, 0>>, <<14, 18>>, <<15, 4>>, <<15, 22>>, <<16, 8>>, <<16, 26>>,
        <<17, 12>>, <<17, 30>>, <<18, 14>>, <<18, 19>>, <<19, 18>>, <<19, 20>>, <<20, 19>>, <<20,
        21>>, <<20, 33>>, <<21, 20>>, <<21, 22>>, <<22, 15>>, <<22, 21>>, <<22, 23>>, <<23, 22>>,
        <<23, 24>>, <<24, 23>>, <<24, 25>>, <<24, 34>>, <<25, 24>>, <<25, 26>>, <<26, 16>>, <<26,
        25>>, <<26, 27>>, <<27, 26>>, <<27, 28>>, <<28, 27>>, <<28, 29>>, <<28, 35>>, <<29, 28>>,
        <<29, 30>>, <<30, 17>>, <<30, 29>>, <<30, 31>>, <<31, 30>>, <<31, 32>>, <<32, 31>>, <<32,
        36>>, <<33, 20>>, <<33, 39>>, <<34, 24>>, <<34, 43>>, <<35, 28>>, <<35, 47>>, <<36, 32>>,
        <<36, 51>>, <<37, 38>>, <<37, 52>>, <<38, 37>>, <<38, 39>>, <<39, 33>>, <<39, 38>>, <<39,
        40>>, <<40, 39>>, <<40, 41>>, <<41, 40>>, <<41, 42>>, <<41, 53>>, <<42, 41>>, <<42, 43>>,
        <<43, 34>>, <<43, 42>>, <<43, 44>>, <<44, 43>>, <<44, 45>>, <<45, 44>>, <<45, 46>>, <<45,
        54>>, <<46, 45>>, <<46, 47>>, <<47, 35>>, <<47, 46>>, <<47, 48>>, <<48, 47>>, <<48, 49>>,
        <<49, 48>>, <<49, 50>>, <<49, 55>>, <<50, 49>>, <<50, 51>>, <<51, 36>>, <<51, 50>>, <<52,
        37>>, <<52, 56>>, <<53, 41>>, <<53, 60>>, <<54, 45>>, <<54, 64>>, <<55, 49>>, <<55, 68>>,
        <<56, 52>>, <<56, 57>>, <<57, 56>>, <<57, 58>>, <<58, 57>>, <<58, 59>>, <<58, 71>>, <<59,
        58>>, <<59, 60>>, <<60, 53>>, <<60, 59>>, <<60, 61>>, <<61, 60>>, <<61, 62>>, <<62, 61>>,
        <<62, 63>>, <<62, 72>>, <<63, 62>>, <<63, 64>>, <<64, 54>>, <<64, 63>>, <<64, 65>>, <<65,
        64>>, <<65, 66>>, <<66, 65>>, <<66, 67>>, <<66, 73>>, <<67, 66>>, <<67, 68>>, <<68, 55>>,
        <<68, 67>>, <<68, 69>>, <<69, 68>>, <<69, 70>>, <<70, 69>>, <<70, 74>>, <<71, 58>>, <<71,
        77>>, <<72, 62>>, <<72, 81>>, <<73, 66>>, <<73, 85>>, <<74, 70>>, <<74, 89>>, <<75, 76>>,
        <<75, 90>>, <<76, 75>>, <<76, 77>>, <<77, 71>>, <<77, 76>>, <<77, 78>>, <<78, 77>>, <<78,
        79>>, <<79, 78>>, <<79, 80>>, <<79, 91>>, <<80, 79>>, <<80, 81>>, <<81, 72>>, <<81, 80>>,
        <<81, 82>>, <<82, 81>>, <<82, 83>>, <<83, 82>>, <<83, 84>>, <<83, 92>>, <<84, 83>>, <<84,
        85>>, <<85, 73>>, <<85, 84>>, <<85, 86>>, <<86, 85>>, <<86, 87>>, <<87, 86>>, <<87, 88>>,
        <<87, 93>>, <<88, 87>>, <<88, 89>>, <<89, 74>>, <<89, 88>>, <<90, 75>>, <<90, 94>>, <<91,
        79>>, <<91, 98>>, <<92, 83>>, <<92, 102>>, <<93, 87>>, <<93, 106>>, <<94, 90>>, <<94, 95>>,
        <<95, 94>>, <<95, 96>>, <<96, 95>>, <<96, 97>>, <<96, 109>>, <<97, 96>>, <<97, 98>>, <<98,
        91>>, <<98, 97>>, <<98, 99>>, <<99, 98>>, <<99, 100>>, <<100, 99>>, <<100, 101>>, <<100,
        110>>, <<101, 100>>, <<101, 102>>, <<102, 92>>, <<102, 101>>, <<102, 103>>, <<103, 102>>,
        <<103, 104>>, <<104, 103>>, <<104, 105>>, <<104, 111>>, <<105, 104>>, <<105, 106>>, <<106,
        93>>, <<106, 105>>, <<106, 107>>, <<107, 106>>, <<107, 108>>, <<108, 107>>, <<108, 112>>,
        <<109, 96>>, <<109, 114>>, <<110, 100>>, <<110, 118>>, <<111, 104>>, <<111, 122>>, <<112,
        108>>, <<112, 126>>, <<113, 114>>, <<114, 109>>, <<114, 113>>, <<114, 115>>, <<115, 114>>,
        <<115, 116>>, <<116, 115>>, <<116, 117>>, <<117, 116>>, <<117, 118>>, <<118, 110>>, <<118,
        117>>, <<118, 119>>, <<119, 118>>, <<119, 120>>, <<120, 119>>, <<120, 121>>, <<121, 120>>,
        <<121, 122>>, <<122, 111>>, <<122, 121>>, <<122, 123>>, <<123, 122>>, <<123, 124>>, <<124,
        123>>, <<124, 125>>, <<125, 124>>, <<125, 126>>, <<126, 112>>, <<126, 125>>>>,
     q_coordinates |->
        <<<<0, 0>>, <<0, 1>>, <<0, 2>>, <<0, 3>>, <<0, 4>>, <<0, 5>>, <<0, 6>>, <<0, 7>>, <<0, 8>>,
        <<0, 9>>, <<0, 10>>, <<0, 11>>, <<0, 12>>, <<0, 13>>, <<1, 0>>, <<1, 4>>, <<1, 8>>, <<1,
        12>>, <<2, 0>>, <<2, 1>>, <<2, 2>>, <<2, 3>>, <<2, 4>>, <<2, 5>>, <<2, 6>>, <<2, 7>>, <<2,
        8>>, <<2, 9>>, <<2, 10>>, <<2, 11>>, <<2, 12>>, <<2, 13>>, <<2, 14>>, <<3, 2>>, <<3, 6>>,
        <<3, 10>>, <<3, 14>>, <<4, 0>>, <<4, 1>>, <<4, 2>>, <<4, 3>>, <<4, 4>>, <<4, 5>>, <<4, 6>>,
        <<4, 7>>, <<4, 8>>, <<4, 9>>, <<4, 10>>, <<4, 11>>, <<4, 12>>, <<4, 13>>, <<4, 14>>, <<5,
        0>>, <<5, 4>>, <<5, 8>>, <<5, 12>>, <<6, 0>>, <<6, 1>>, <<6, 2>>, <<6, 3>>, <<6, 4>>, <<6,
        5>>, <<6, 6>>, <<6, 7>>, <<6, 8>>, <<6, 9>>, <<6, 10>>, <<6, 11>>, <<6, 12>>, <<6, 13>>,
        <<6, 14>>, <<7, 2>>, <<7, 6>>, <<7, 10>>, <<7, 14>>, <<8, 0>>, <<8, 1>>, <<8, 2>>, <<8, 3>>,
        <<8, 4>>, <<8, 5>>, <<8, 6>>, <<8, 7>>, <<8, 8>>, <<8, 9>>, <<8, 10>>, <<8, 11>>, <<8, 12>>,
        <<8, 13>>, <<8, 14>>, <<9, 0>>, <<9, 4>>, <<9, 8>>, <<9, 12>>, <<10, 0>>, <<10, 1>>, <<10,
        2>>, <<10, 3>>, <<10, 4>>, <<10, 5>>, <<10, 6>>, <<10, 7>>, <<10, 8>>, <<10, 9>>, <<10,
        10>>, <<10, 11>>, <<10, 12>>, <<10, 13>>, <<10, 14>>, <<11, 2>>, <<11, 6>>, <<11, 10>>,
        <<11, 14>>, <<12, 1>>, <<12, 2>>, <<12, 3>>, <<12, 4>>, <<12, 5>>, <<12, 6>>, <<12, 7>>,
        <<12, 8>>, <<12, 9>>, <<12, 10>>, <<12, 11>>, <<12, 12>>, <<12, 13>>, <<12, 14>>>>,
     h_z_pat |-> [k \in 1..127 |-> 0]]

-----------------------------------------------------------------------------
(* Module load. *)

EmptyDict == [k \in {} |-> <<>>]

Init ==
    /\ coupling_maps = EmptyDict
    /\ qubit_coordinates = EmptyDict
    /\ h_z_patterns = EmptyDict
    /\ pc = "chain.M"
    /\ n_qubits = ChainMStart
    /\ plot_call = <<>>
    /\ plot_outcome = "none"
    /\ plot_raised = ""
    /\ plot_stdout = <<>>
    /\ plot_handed = <<>>
    /\ plot_saved = ""
    /\ ring_call = <<>>
    /\ ring_result = <<>>

(* coupling_maps[s_key] = c_map; qubit_coordinates[s_key] = q_coordinates;
   h_z_patterns[s_key] = h_z_pat *)
Register(s_key, t) ==
    /\ coupling_maps' = DictSet(coupling_maps, s_key, t.c_map)
    /\ qubit_coordinates' = DictSet(qubit_coordinates, s_key, t.q_coordinates)
    /\ h_z_patterns' = DictSet(h_z_patterns, s_key, t.h_z_pat)

(* One iteration of a loop over range(.., stop, step); when the range is
   exhausted control passes to the next statement group. *)
LoopStep(step, stop, next_pc, next_n) ==
    IF n_qubits + step < stop
    THEN pc' = pc /\ n_qubits' = n_qubits + step
    ELSE pc' = next_pc /\ n_qubits' = next_n

ChainMLoop ==
    /\ pc = "chain.M"
    /\ Register(SKey(n_qubits, ".chain.M"), ChainMTopology(n_qubits))
    /\ LoopStep(2, ChainMStop, "chain.E", ChainEStart)
    /\ UNCHANGED <<plot_vars, ring_vars>>

ChainELoop ==
    /\ pc = "chain.E"
    /\ Register(SKey(n_qubits, ".chain.E"), ChainETopology(n_qubits))
    /\ LoopStep(1, ChainEStop, "ring.A", RingAStart)
    /\ UNCHANGED <<plot_vars, ring_vars>>

RingALoop ==
    /\ pc = "ring.A"
    /\ Register(SKey(n_qubits, ".ring.A"), RingATopology(n_qubits))
    /\ LoopStep(2, RingAStop, "ring.B", RingBStart)
    /\ ring_call' = [n_qubits |-> n_qubits, i_offset |-> 0]
    /\ ring_result' = create_ring_A(n_qubits, 0)
    /\ UNCHANGED plot_vars

RingBLoop ==
    /\ pc = "ring.B"
    /\ Register(SKey(n_qubits, ".ring.B"), RingBTopology(n_qubits))
    /\ LoopStep(2, RingBStop, "plaquette.A", PlaquetteAStart)
    /\ UNCHANGED <<plot_vars, ring_vars>>

PlaquetteALoop ==
    /\ pc = "plaquette.A"
    /\ Register(SKey(n_qubits, ".plaquette.A"), PlaquetteATopology(n_qubits))
    /\ LoopStep(2, PlaquetteAStop, "10.plaquette.B", n_qubits)
    /\ ring_call' = [n_qubits |-> n_qubits - 2, i_offset |-> 1]
    /\ ring_result' = create_ring_A(n_qubits - 2, 1)
    /\ UNCHANGED plot_vars

(* The literal assignments, one topology at a time, in source order. *)
Literal(s_key, t, next_pc) ==
    /\ pc = s_key
    /\ Register(s_key, t)
    /\ pc' = next_pc
    /\ UNCHANGED <<n_qubits, plot_vars, ring_vars>>

PlaquetteB10Literal == Literal("10.plaquette.B", PlaquetteB10, "12.plaquette.B")

PlaquetteB12Literal == Literal("12.plaquette.B", PlaquetteB12, "27.falcon")

Falcon27Literal == Literal("27.falcon", Falcon27, "7.falcon")

Falcon7Literal == Literal("7.falcon", Falcon7, "127.eagle")

Eagle127Literal == Literal("127.eagle", Eagle127, "loaded")

Load ==
    \/ ChainMLoop
    \/ ChainELoop
    \/ RingALoop
    \/ RingBLoop
    \/ PlaquetteALoop
    \/ PlaquetteB10Literal
    \/ PlaquetteB12Literal
    \/ Falcon27Literal
    \/ Falcon7Literal
    \/ Eagle127Literal

-----------------------------------------------------------------------------
(* plot_topology *)

(* The largest N plot_topology is called with. *)
MaxPlotN == 5

(* Keys plot_topology is called with: registered ones and unregistered ones. *)
PlotKeys == {"3.chain.M", "4.chain.E", "4.ring.A", "6.plaquette.A",
             "5.ring.A", "4.chain.M", "3.chain"}

Topologies == {"chain", "ring", "plaquette"}

FilePrefixes == {"fig"}

(* Where the visualization collaborator fails during a call, if it does: the
   import of plot_coupling_map, plot_coupling_map itself, plt.savefig (reached
   only when b_save_figures), plt.draw, plt.pause or plt.show. Each failure is
   a Python Exception; the collaborator does not write to its arguments. *)
FailPoints == {"none", "import", "plot_coupling_map", "savefig", "draw", "pause", "show"}

(* np.nonzero(h_z_pattern)[0]: the 0-based indices of the nonzero entries. *)
NonZero(h_z_pattern) ==
    {k - 1 : k \in {j \in 1..Len(h_z_pattern) : h_z_pattern[j] # 0}}

(* Lines 722 and 726-731: qubit_color = [..] * N, then qubit_color[i] = .. for
   every nonzero index when b_alternating_qubits; an index outside the list
   raises IndexError. *)
QubitColor(N, h_z_pattern, b_alternating_qubits) ==
    IF b_alternating_qubits /\ \E i \in NonZero(h_z_pattern) : i >= N
    THEN [raised |-> "IndexError"]
    ELSE [raised |-> "",
          value |-> [k \in 1..N |->
                       IF b_alternating_qubits /\ (k - 1) \in NonZero(h_z_pattern)
                       THEN "#ff6f64" ELSE "#648fff"]]

SAlternating(b_alternating_qubits) ==
    IF b_alternating_qubits THEN ".alternating" ELSE ""

(* Lines 733-736 and 739. *)
FigSize(topology, b_transpose_plot) ==
    LET figsize == IF topology = "plaquette" \/ topology = "ring"
                   THEN <<4, 7>> ELSE <<8, 2>>
    IN  IF b_transpose_plot THEN <<figsize[2], figsize[1]>> ELSE figsize

(* Variant of Transpose: the stored coordinates are swapped in place. *)
Transpose_InPlace(qubit_coord, b_transpose_plot) ==
    IF b_transpose_plot
    THEN [q_coord |-> [k \in 1..Len(qubit_coord) |->
                         <<qubit_coord[k][2], qubit_coord[k][1]>>],
          qubit_coord |-> [k \in 1..Len(qubit_coord) |->
                             <<qubit_coord[k][2], qubit_coord[k][1]>>]]
    ELSE [q_coord |-> qubit_coord, qubit_coord |-> qubit_coord]

(* Lines 737-743: q_coord is the list handed on, qubit_coord the list the
   table holds, as it is after these lines. *)
Transpose(qubit_coord, b_transpose_plot) ==
    IF b_transpose_plot
    THEN [q_coord |-> [k \in 1..Len(qubit_coord) |->
                         <<qubit_coord[k][2], qubit_coord[k][1]>>],
          qubit_coord |-> qubit_coord]
    ELSE [q_coord |-> qubit_coord, qubit_coord |-> qubit_coord]

(* Variant of TryPlot: the import stands before the try block, so its failure
   leaves plot_topology. *)
TryPlot_ImportOutsideTry(kwargs, b_save_figures, file_name, fail_at) ==
    LET failed == \/ fail_at \in {"import", "plot_coupling_map", "draw", "pause", "show"}
                  \/ fail_at = "savefig" /\ b_save_figures
    IN  [raised |-> IF failed THEN fail_at ELSE "",
         propagated |-> IF fail_at = "import" THEN fail_at ELSE "",
         stdout |-> IF failed /\ fail_at # "import" THEN <<fail_at>> ELSE <<>>,
         handed |-> IF fail_at = "import" THEN <<>> ELSE kwargs,
         saved |-> IF b_save_figures
                      /\ fail_at \notin {"import", "plot_coupling_map", "savefig"}
                   THEN file_name ELSE ""]

(* Variant of TryPlot: except ImportError, so only the failed import is
   caught and every other failure leaves plot_topology. *)
TryPlot_ExceptImportError(kwargs, b_save_figures, file_name, fail_at) ==
    LET failed == \/ fail_at \in {"import", "plot_coupling_map", "draw", "pause", "show"}
                  \/ fail_at = "savefig" /\ b_save_figures
    IN  [raised |-> IF failed THEN fail_at ELSE "",
         propagated |-> IF failed /\ fail_at # "import" THEN fail_at ELSE "",
         stdout |-> IF fail_at = "import" THEN <<fail_at>> ELSE <<>>,
         handed |-> IF fail_at = "import" THEN <<>> ELSE kwargs,
         saved |-> IF b_save_figures
                      /\ fail_at \notin {"import", "plot_coupling_map", "savefig"}
                   THEN file_name ELSE ""]

(* Lines 745-761, the try block: raised is the exception the collaborator
   raised inside it, propagated the one that leaves plot_topology, handed the
   keyword arguments plot_coupling_map was called with, saved the file name
   plt.savefig wrote. *)
TryPlot(kwargs, b_save_figures, file_name, fail_at) ==
    LET failed == \/ fail_at \in {"import", "plot_coupling_map", "draw", "pause", "show"}
                  \/ fail_at = "savefig" /\ b_save_figures
    IN  [raised |-> IF failed THEN fail_at ELSE "",
         propagated |-> "",
         stdout |-> IF failed THEN <<fail_at>> ELSE <<>>,
         handed |-> IF fail_at = "import" THEN <<>> ELSE kwargs,
         saved |-> IF b_save_figures
                      /\ fail_at \notin {"import", "plot_coupling_map", "savefig"}
                   THEN file_name ELSE ""]

(* The call ends by raising err to its caller before the try block. *)
Raise(err) ==
    /\ plot_outcome' = err
    /\ plot_raised' = ""
    /\ plot_stdout' = <<>>
    /\ plot_handed' = <<>>
    /\ plot_saved' = ""
    /\ UNCHANGED tables

plot_topology(N, topology, s_coupling_map, b_save_figures, s_file_prefix, b_transpose_plot, b_alternating_qubits, fail_at) ==
    LET h_z_pattern == DictGet(h_z_patterns, s_coupling_map)
        coupling_map == DictGet(coupling_maps, s_coupling_map)
        qubit_coord == DictGet(qubit_coordinates, s_coupling_map)
        qubit_color == QubitColor(N, h_z_pattern.value, b_alternating_qubits)
        t == Transpose(qubit_coord.value, b_transpose_plot)
        r == TryPlot([num_qubits |-> N,
                      qubit_coordinates |-> t.q_coord,
                      coupling_map |-> coupling_map.value,
                      figsize |-> FigSize(topology, b_transpose_plot),
                      qubit_color |-> qubit_color.value],
                     b_save_figures,
                     (s_file_prefix \o SAlternating(b_alternating_qubits)) \o ".png",
                     fail_at)
    IN  /\ pc = "loaded"
        /\ pc' = "plotted"
        /\ plot_call' = [N |-> N, topology |-> topology,
                         s_coupling_map |-> s_coupling_map,
                         b_save_figures |-> b_save_figures,
                         s_file_prefix |-> s_file_prefix,
                         b_transpose_plot |-> b_transpose_plot,
                         b_alternating_qubits |-> b_alternating_qubits]
        /\ IF h_z_pattern.raised # "" THEN Raise(h_z_pattern.raised)
           ELSE IF coupling_map.raised # "" THEN Raise(coupling_map.raised)
           ELSE IF qubit_coord.raised # "" THEN Raise(qubit_coord.raised)
           ELSE IF qubit_color.raised # "" THEN Raise(qubit_color.raised)
           ELSE /\ plot_outcome' = IF r.propagated # "" THEN r.propagated ELSE "returned"
                /\ plot_raised' = r.raised
                /\ plot_stdout' = r.stdout
                /\ plot_handed' = r.handed
                /\ plot_saved' = r.saved
                /\ qubit_coordinates' =
                       [qubit_coordinates EXCEPT ![s_coupling_map] = t.qubit_coord]
                /\ UNCHANGED <<coupling_maps, h_z_patterns>>
        /\ UNCHANGED <<n_qubits, ring_vars>>

PlotTopology ==
    \E N \in 0..MaxPlotN, topology \in Topologies, s_coupling_map \in PlotKeys,
       b_save_figures \in BOOLEAN, s_file_prefix \in FilePrefixes,
       b_transpose_plot \in BOOLEAN, b_alternating_qubits \in BOOLEAN,
       fail_at \in FailPoints :
        plot_topology(N, topology, s_coupling_map, b_save_figures, s_file_prefix,
                      b_transpose_plot, b_alternating_qubits, fail_at)

(* Control is back in the caller, with the result or the exception of the
   call: the frame of the call is gone, the tables stay. *)
CallerResumes ==
    /\ pc = "plotted"
    /\ pc' = "loaded"
    /\ plot_call' = <<>>
    /\ plot_outcome' = "none"
    /\ plot_raised' = ""
    /\ plot_stdout' = <<>>
    /\ plot_handed' = <<>>
    /\ plot_saved' = ""
    /\ UNCHANGED <<tables, n_qubits, ring_vars>>

Next == Load \/ PlotTopology \/ CallerResumes

Spec == Init /\ [][Next]_vars

-----------------------------------------------------------------------------
(* _create_ring_A on its own: called once with arguments drawn from every
   even n_qubits from 4 up and every offset of either sign within the bounds. *)

(* The largest n_qubits and the largest |i_offset| _create_ring_A is called with. *)
MaxRingQubits == 30
MaxOffset == 4

RingAInit ==
    /\ coupling_maps = EmptyDict
    /\ qubit_coordinates = EmptyDict
    /\ h_z_patterns = EmptyDict
    /\ pc = "create_ring_A"
    /\ n_qubits = ChainMStart
    /\ plot_call = <<>>
    /\ plot_outcome = "none"
    /\ plot_raised = ""
    /\ plot_stdout = <<>>
    /\ plot_handed = <<>>
    /\ plot_saved = ""
    /\ ring_call \in [n_qubits : {n \in 4..MaxRingQubits : n % 2 = 0},
                       i_offset : (0 - MaxOffset)..MaxOffset]
    /\ ring_result = <<>>

CreateRingA ==
    /\ pc = "create_ring_A"
    /\ pc' = "ring_returned"
    /\ ring_result' = create_ring_A(ring_call.n_qubits, ring_call.i_offset)
    /\ UNCHANGED <<tables, n_qubits, plot_vars, ring_call>>

RingASpec == RingAInit /\ [][CreateRingA]_vars

-----------------------------------------------------------------------------
(* Vocabulary of the properties. *)

(* The largest leading integer of a key that is parsed. *)
MaxKeyN == 127

KeySuffixes == {".chain.M", ".chain.E", ".ring.A", ".ring.B",
                ".plaquette.A", ".plaquette.B", ".falcon", ".eagle"}

(* Every string of the form "{N}{suffix}", registered or not. *)
FormattedKeys == {SKey(n, s) : n \in 0..MaxKeyN, s \in KeySuffixes}

(* The leading integer of a key. *)
LeadingInt ==
    [key \in FormattedKeys |->
        CHOOSE n \in 0..MaxKeyN : \E s \in KeySuffixes : SKey(n, s) = key]

Odd(a, b) == {n \in a..b : n % 2 = 1}

Even(a, b) == {n \in a..b : n % 2 = 0}

Loaded == pc = "loaded"

Plotted == pc = "plotted"

(* The key set the tables are to hold after module load. *)
ExpectedKeys ==
    {SKey(n, ".chain.M") : n \in Odd(3, 61)}
    \cup {SKey(n, ".chain.E") : n \in 2..62}
    \cup {SKey(n, ".ring.A") : n \in Even(4, 62)}
    \cup {SKey(n, ".ring.B") : n \in Even(4, 62)}
    \cup {SKey(n, ".plaquette.A") : n \in Even(6, 62)}
    \cup {"10.plaquette.B", "12.plaquette.B", "7.falcon", "27.falcon", "127.eagle"}

(* Keys that are looked up without being registered. *)
OtherKeys == (FormattedKeys \cup PlotKeys) \ ExpectedKeys

Elems(seq) == {seq[k] : k \in 1..Len(seq)}

(* The qubits a bond list joins to v. *)
Neighbours(c_map, v) ==
    {e[2] : e \in {b \in Elems(c_map) : b[1] = v}}
    \cup {e[1] : e \in {b \in Elems(c_map) : b[2] = v}}

(* The qubits reachable from those of S along the bonds. *)
RECURSIVE Reach(_, _)
Reach(c_map, S) ==
    LET T == S \cup UNION {Neighbours(c_map, v) : v \in S}
    IN  IF T = S THEN S ELSE Reach(c_map, T)

(* c_map is a simple cycle through the qubits 0..n-1. *)
SimpleCycle(c_map, n) ==
    /\ Len(c_map) = n
    /\ \A j, k \in 1..Len(c_map) :
          j # k => {c_map[j][1], c_map[j][2]} # {c_map[k][1], c_map[k][2]}
    /\ \A k \in 1..Len(c_map) :
          c_map[k][1] # c_map[k][2] /\ {c_map[k][1], c_map[k][2]} \subseteq 0..(n - 1)
    /\ \A v \in 0..(n - 1) :
          Cardinality({k \in 1..Len(c_map) : v \in {c_map[k][1], c_map[k][2]}}) = 2
    /\ Reach(c_map, {0}) = 0..(n - 1)

-----------------------------------------------------------------------------
(* C1, as stated: every registered plaquette-A topology "N.plaquette.A" has a
   coupling map of exactly N-1 edges. *)
C1_PlaquetteAHasNMinus1Edges ==
    \A n \in Even(6, 62) :
        SKey(n, ".plaquette.A") \in DOMAIN coupling_maps
            => Len(coupling_maps[SKey(n, ".plaquette.A")]) = n - 1

(* C1, amended: every registered plaquette-A topology "N.plaquette.A" (even N
   from 6 to 62) has a coupling map of exactly N edges: the N-2 bonds of the
   inner ring and one bond for each of the two boundary qubits. *)
C1_PlaquetteAHasNEdges ==
    \A n \in Even(6, 62) :
        SKey(n, ".plaquette.A") \in DOMAIN coupling_maps
            => Len(coupling_maps[SKey(n, ".plaquette.A")]) = n

C1_Witness ==
    /\ Loaded
    /\ \A n \in Even(6, 62) : SKey(n, ".plaquette.A") \in DOMAIN coupling_maps
    /\ Len(coupling_maps["6.plaquette.A"]) = 6
    /\ Len(coupling_maps["62.plaquette.A"]) = 62

(* C2: in every registered chain-M topology "N.chain.M" (odd N from 3 to 61)
   the field pattern holds only 0 and 1, differs from each index to the next,
   and is 0 at the middle index (N-1)//2. *)
C2_ChainMMiddleZero ==
    \A n \in Odd(3, 61) :
        SKey(n, ".chain.M") \in DOMAIN h_z_patterns =>
            LET pat == h_z_patterns[SKey(n, ".chain.M")]
            IN  /\ Len(pat) = n
                /\ \A k \in 1..n : pat[k] \in {0, 1}
                /\ \A k \in 1..(n - 1) : pat[k] # pat[k + 1]
                /\ pat[((n - 1) \div 2) + 1] = 0

C2_Witness ==
    /\ Loaded
    /\ \A n \in Odd(3, 61) : SKey(n, ".chain.M") \in DOMAIN h_z_patterns
    /\ h_z_patterns["3.chain.M"] = <<1, 0, 1>>
    /\ h_z_patterns["5.chain.M"] = <<0, 1, 0, 1, 0>>

(* C3: after module load, the coupling map of every ring topology "N.ring.A"
   and "N.ring.B" (even N from 4 to 62) is a simple cycle through all N
   qubits: N edges, none repeated, every qubit 0..N-1 of degree 2, connected. *)
C3_RingsAreSimpleCycles ==
    Loaded =>
        \A n \in Even(4, 62), s \in {".ring.A", ".ring.B"} :
            /\ SKey(n, s) \in DOMAIN coupling_maps
            /\ SimpleCycle(coupling_maps[SKey(n, s)], n)

C3_Witness ==
    /\ Loaded
    /\ coupling_maps["6.ring.A"]
         = << <<0, 1>>, <<0, 2>>, <<1, 3>>, <<2, 4>>, <<3, 5>>, <<4, 5>> >>
    /\ coupling_maps["4.ring.B"] = << <<0, 1>>, <<1, 2>>, <<2, 3>>, <<3, 0>> >>
    /\ "62.ring.A" \in DOMAIN coupling_maps

(* C4: for every key registered in coupling_maps, with N the leading integer
   of the key, every qubit index in every edge of its coupling map lies in
   [0, N). *)
C4_EdgeIndicesInRange ==
    \A key \in DOMAIN coupling_maps :
        LET N == LeadingInt[key]
            c_map == coupling_maps[key]
        IN  \A k \in 1..Len(c_map) :
                /\ 0 <= c_map[k][1] /\ c_map[k][1] < N
                /\ 0 <= c_map[k][2] /\ c_map[k][2] < N

C4_Witness ==
    /\ Loaded
    /\ DOMAIN coupling_maps = ExpectedKeys
    /\ <<125, 126>> \in Elems(coupling_maps["127.eagle"])
    /\ <<60, 61>> \in Elems(coupling_maps["62.plaquette.A"])
    /\ LeadingInt["62.plaquette.A"] = 62

(* C5: for every registered key, with N the leading integer of the key, the
   coordinate list has exactly N entries and the field pattern has exactly N
   entries. *)
C5_ListLengths ==
    /\ \A key \in DOMAIN qubit_coordinates : Len(qubit_coordinates[key]) = LeadingInt[key]
    /\ \A key \in DOMAIN h_z_patterns : Len(h_z_patterns[key]) = LeadingInt[key]

C5_Witness ==
    /\ Loaded
    /\ DOMAIN qubit_coordinates = ExpectedKeys
    /\ DOMAIN h_z_patterns = ExpectedKeys
    /\ Len(qubit_coordinates["62.ring.B"]) = 62
    /\ Len(h_z_patterns["127.eagle"]) = 127

(* C6: whenever the visualization collaborator fails inside a plot_topology
   call (the import of plot_coupling_map, plot_coupling_map itself, saving or
   drawing the figure), the failure is caught in the function, its description
   is printed, and the call returns normally: nothing propagates. *)
C6_CollaboratorFailureCaught ==
    Plotted /\ plot_raised # "" =>
        /\ plot_outcome = "returned"
        /\ plot_stdout = <<plot_raised>>

C6_Witness ==
    /\ Plotted
    /\ plot_raised = "import"
    /\ plot_outcome = "returned"
    /\ plot_stdout = <<"import">>
    /\ plot_handed = <<>>

(* C7, as stated: for every combination of arguments and every behaviour of
   the collaborator, a call to plot_topology returns normally. *)
C7_EveryCallReturns ==
    Plotted => plot_outcome = "returned"

(* Every nonzero entry of the key's field pattern has an index below N. *)
ColoursFit(call) ==
    \A i \in NonZero(h_z_patterns[call.s_coupling_map]) : i < call.N

(* C7, amended: a call to plot_topology with a registered key s_coupling_map
   and, when b_alternating_qubits is set, an N above the index of every
   nonzero entry of that key's field pattern returns normally, whatever the
   other arguments and whatever the collaborator does. *)
C7_RegisteredCallReturns ==
    Plotted /\ plot_call.s_coupling_map \in DOMAIN h_z_patterns
            /\ (plot_call.b_alternating_qubits => ColoursFit(plot_call))
        => plot_outcome = "returned"

C7_Witness ==
    /\ Plotted
    /\ plot_call.s_coupling_map = "6.plaquette.A"
    /\ plot_call.b_alternating_qubits
    /\ plot_call.N = 5
    /\ plot_raised = "plot_coupling_map"
    /\ plot_outcome = "returned"

(* C8: after module load the three tables hold exactly the same key set, the
   one enumerated in ExpectedKeys; looking up any other key in any of the
   tables, directly or through plot_topology, raises KeyError to the caller
   and yields no value. *)
C8_KeySetAndKeyError ==
    (Loaded \/ Plotted) =>
        /\ DOMAIN coupling_maps = ExpectedKeys
        /\ DOMAIN qubit_coordinates = ExpectedKeys
        /\ DOMAIN h_z_patterns = ExpectedKeys
        /\ \A key \in OtherKeys :
              /\ DictGet(coupling_maps, key) = [raised |-> "KeyError"]
              /\ DictGet(qubit_coordinates, key) = [raised |-> "KeyError"]
              /\ DictGet(h_z_patterns, key) = [raised |-> "KeyError"]
        /\ (Plotted /\ plot_call.s_coupling_map \notin ExpectedKeys) =>
              /\ plot_outcome = "KeyError"
              /\ plot_handed = <<>>
              /\ plot_stdout = <<>>

C8_Witness ==
    /\ Plotted
    /\ plot_call.s_coupling_map = "5.ring.A"
    /\ plot_outcome = "KeyError"
    /\ Cardinality(DOMAIN coupling_maps) = 185

(* C9: once module-level construction has finished the three tables are never
   written again: no step taken after the load, a plot_topology call with or
   without b_transpose_plot and b_alternating_qubits, succeeding or failing,
   changes a key set, a coupling map, a coordinate list or a field pattern. *)
C9_TablesFrozenAfterLoad ==
    [][(Loaded \/ Plotted) => tables' = tables]_vars

C9_Witness ==
    /\ Plotted
    /\ plot_call.b_transpose_plot
    /\ plot_call.b_alternating_qubits
    /\ plot_call.s_coupling_map = "4.ring.A"
    /\ plot_outcome = "returned"
    /\ plot_handed # <<>>
    /\ plot_handed.qubit_coordinates = << <<1, 1>>, <<0, 2>>, <<2, 2>>, <<1, 3>> >>
    /\ qubit_coordinates["4.ring.A"] = << <<1, 1>>, <<2, 0>>, <<2, 2>>, <<3, 1>> >>

(* The N-2 interior entries of a ring-A pattern come in consecutive equal
   pairs (indices 1-2, 3-4, ...), the first pair being 1 and the value
   flipping from each pair to the next. *)
InteriorPairs(pat, n) ==
    /\ Len(pat) = n
    /\ \A j \in 1..((n - 2) \div 2) :
          /\ pat[2 * j] = pat[2 * j + 1]
          /\ pat[2 * j] = (IF j % 2 = 1 THEN 1 ELSE 0)

(* C10, as stated: every ring-A pattern starts and ends at one boundary
   value, the same for every N (the value at index 0 equals the value at index
   N-1), and its interior entries come in flipping pairs starting at 1. *)
C10_RingAEndsEqual ==
    \A n \in Even(4, 62) :
        SKey(n, ".ring.A") \in DOMAIN h_z_patterns =>
            LET pat == h_z_patterns[SKey(n, ".ring.A")]
            IN  /\ InteriorPairs(pat, n)
                /\ pat[1] = pat[n]
                /\ pat[1] = h_z_patterns["4.ring.A"][1]

(* C10, amended: every ring-A pattern (even N from 4 to 62) starts at 0, its
   N-2 interior entries come in consecutive equal pairs whose value flips from
   each pair to the next, the first pair being 1, and its last entry is the
   flip of the last pair: it equals the first entry when N is a multiple of 4
   and is 1 otherwise. *)
C10_RingAPattern ==
    \A n \in Even(4, 62) :
        SKey(n, ".ring.A") \in DOMAIN h_z_patterns =>
            LET pat == h_z_patterns[SKey(n, ".ring.A")]
            IN  /\ InteriorPairs(pat, n)
                /\ pat[1] = 0
                /\ pat[n] # pat[n - 1]
                /\ pat[n] = (IF n % 4 = 0 THEN 0 ELSE 1)

C10_Witness ==
    /\ Loaded
    /\ h_z_patterns["4.ring.A"] = <<0, 1, 1, 0>>
    /\ h_z_patterns["6.ring.A"] = <<0, 1, 1, 0, 0, 1>>
    /\ "62.ring.A" \in DOMAIN h_z_patterns

(* The pattern entries of the two qubits of a bond, a and b, stand at the
   0-based positions a - i_offset and b - i_offset. *)
BondAlternates(pat, bond, i_offset) ==
    /\ (bond[1] - i_offset) + 1 \in 1..Len(pat)
    /\ (bond[2] - i_offset) + 1 \in 1..Len(pat)
    /\ pat[(bond[1] - i_offset) + 1] # pat[(bond[2] - i_offset) + 1]

RingReturned == ring_result # <<>>

(* C11: for every even n_qubits >= 4 and every i_offset, the pattern returned
   by _create_ring_A holds only the values 0 and 1, and for every bond [a, b]
   of the returned coupling map the pattern entries of qubit a and of qubit b
   (at positions a - i_offset and b - i_offset) differ. *)
C11_RingANeighboursAlternate ==
    RingReturned =>
        /\ \A k \in 1..Len(ring_result.h_z_pat) : ring_result.h_z_pat[k] \in {0, 1}
        /\ \A k \in 1..Len(ring_result.c_map) :
              BondAlternates(ring_result.h_z_pat, ring_result.c_map[k],
                             ring_call.i_offset)

C11_Witness ==
    /\ RingReturned
    /\ ring_call = [n_qubits |-> 6, i_offset |-> 3]
    /\ ring_result.c_map
         = << <<3, 4>>, <<3, 5>>, <<4, 6>>, <<5, 7>>, <<6, 8>>, <<7, 8>> >>
    /\ ring_result.h_z_pat = <<0, 1, 1, 0, 0, 1>>

====
